---- MODULE Spec2Model ----
(***************************************************************************)
(* Model of Minion.py: the robot classifiers Minion, ExpertMinion,         *)
(* AllTheSingleLabelsMinion, RandomMinion, NoisyMinion and                 *)
(* MachineLearningMinion, driven by a caller that constructs an object,    *)
(* keeps it in m and calls classify on it.                                 *)
(*                                                                         *)
(* Real numbers (confusion matrix elements, draws of np.random.randn) are  *)
(* represented on a grid: the integer k stands for the real k / Unit, so   *)
(* Unit stands for 1.0 and 0 for 0.0.                                      *)
(*                                                                         *)
(* Records list their fields in one fixed order throughout: cls,           *)
(* subject_id, id, gold_label, label, labels, confusion_matrix, randn, op. *)
(***************************************************************************)
EXTENDS Integers, Sequences, FiniteSets

\* ---------------------------------------------------------------- bounds
Unit == 2          \* grid resolution: k stands for k / Unit
MaxDraw == 3       \* randn draws range over -MaxDraw..MaxDraw grid points
MaxId == 2         \* Minion ids 1..MaxId
MaxSubject == 2    \* subject ids 1..MaxSubject
MaxLabel == 1      \* labels of the task are 0..MaxLabel
MaxLabels == 2     \* longest list of labels given to a RandomMinion

Ids == 1..MaxId
Subjects == 1..MaxSubject
Labels == 0..MaxLabel
BinaryLabels == {0, 1}
Draws == (0 - MaxDraw)..MaxDraw
Elements == (0 - 1)..(Unit + 1)
ConfusionMatrices == [1..2 -> Elements]
LabelLists == UNION {[1..n -> Labels] : n \in 1..MaxLabels}

\* ----------------------------------------------------------- Python values
PyInt(n) == [type |-> "int", val |-> n]
PyBool(b) == [type |-> "bool", val |-> IF b THEN 1 ELSE 0]

\* the value of the expression  x == n  for an int x and an int literal n
PyEq(x, n) == PyBool(x.val = n)

\* how a call ends: with a value, or with an exception
Returned(v, self) ==
  [exc |-> "none", self |-> self, status |-> "returned", value |-> v]
Raised(e, self) ==
  [exc |-> e, self |-> self, status |-> "raised", value |-> <<>>]

\* the names bound at module level of Minion.py
ModuleGlobals ==
  {"np", "Minion", "ExpertMinion", "AllTheSingleLabelsMinion", "RandomMinion",
   "NoisyMinion", "MachineLearningMinion", "main"}

\* np.random.choice(a), its pick being the i-th element
np_random_choice(a, i) == a[i]

\* (a < 0).any() and (a > 1).any() of a numpy array
any_lt(a, k) == \E i \in DOMAIN a : a[i] < k
any_gt(a, k) == \E i \in DOMAIN a : a[i] > k

\* ----------------------------------------------------------------- Minion
\* Minion defines no __init__: object's is inherited and the call returns
Minion_init == Returned(<<>>, [cls |-> "Minion"])

Minion_classify(self, subject_id) == Raised("NotImplementedError", self)

\* ----------------------------------------------------------- ExpertMinion
ExpertMinion_init(id) == Returned(<<>>, [cls |-> "ExpertMinion", id |-> id])

ExpertMinion_classify_flipped(self, subject_id, gold_label) ==
  Returned(<<subject_id, PyInt(1 - gold_label.val)>>, self)

ExpertMinion_classify(self, subject_id, gold_label) ==
  Returned(<<subject_id, gold_label>>, self)

\* ----------------------------------------------- AllTheSingleLabelsMinion
AllTheSingleLabelsMinion_init_idlabel(id, label) ==
  Returned(<<>>, [cls |-> "AllTheSingleLabelsMinion", id |-> id,
                  label |-> PyInt(id)])

AllTheSingleLabelsMinion_init(id, label) ==
  Returned(<<>>, [cls |-> "AllTheSingleLabelsMinion", id |-> id, label |-> label])

AllTheSingleLabelsMinion_classify_counting(self, subject_id) ==
  Returned(<<subject_id, self.label>>,
           [self EXCEPT !.label = PyInt((self.label.val + 1) % (MaxLabel + 1))])

AllTheSingleLabelsMinion_classify(self, subject_id) ==
  Returned(<<subject_id, self.label>>, self)

\* ----------------------------------------------------------- RandomMinion
RandomMinion_init(id, labels) ==
  Returned(<<>>, [cls |-> "RandomMinion", id |-> id, labels |-> labels])

\* the body reads the name  labels , not  self.labels : a global lookup
RandomMinion_classify(self, subject_id, i) ==
  IF "labels" \in ModuleGlobals
    THEN Returned(<<subject_id, PyInt(np_random_choice(self.labels, i))>>, self)
    ELSE Raised("NameError", self)

\* ------------------------------------------------------------ NoisyMinion
\* self.id is assigned before the test; a raise leaves no object behind
NoisyMinion_init(id, confusion_matrix) ==
  IF any_lt(confusion_matrix, 0) /\ any_gt(confusion_matrix, Unit)
    THEN Raised("ValueError", [cls |-> "NoisyMinion", id |-> id])
    ELSE Returned(<<>>, [cls |-> "NoisyMinion", id |-> id,
                         confusion_matrix |-> confusion_matrix])

NoisyMinion_classify(self, subject_id, gold_label, randn) ==
  IF randn < self.confusion_matrix[gold_label.val + 1]
    THEN Returned(<<subject_id, gold_label>>, self)
    ELSE Returned(<<subject_id, PyEq(gold_label, 0)>>, self)

\* -------------------------------------------------- MachineLearningMinion
MachineLearningMinion_init(id) ==
  Raised("NotImplementedError", [cls |-> "MachineLearningMinion"])

MachineLearningMinion_classify(self, subject_id) ==
  Raised("NotImplementedError", self)

\* ------------------------------------------------------------------ state
VARIABLES
  m,        \* the object the caller holds
  ctor,     \* the constructor call that built m
  call,     \* the last call made
  outcome   \* how the last call ended

vars == <<m, ctor, call, outcome>>

Outcome(r) == [exc |-> r.exc, status |-> r.status, value |-> r.value]

Init ==
  /\ m = [cls |-> "NoneType"]
  /\ ctor = [cls |-> "NoneType"]
  /\ call = [cls |-> "NoneType", op |-> "none"]
  /\ outcome = [exc |-> "none", status |-> "none", value |-> <<>>]

\* m = Cls(args): m is bound only when the constructor returns
Construct(c, r) ==
  /\ call' = c
  /\ outcome' = Outcome(r)
  /\ IF r.status = "returned"
       THEN m' = r.self /\ ctor' = c
       ELSE UNCHANGED <<m, ctor>>

\* m.classify(args): the method may rebind attributes of self
Classify(c, r) ==
  /\ call' = c
  /\ outcome' = Outcome(r)
  /\ m' = r.self
  /\ UNCHANGED ctor

MinionInit ==
  Construct([cls |-> "Minion", op |-> "construct"], Minion_init)

MinionClassify ==
  /\ m.cls = "Minion"
  /\ \E s \in Subjects :
       Classify([cls |-> "Minion", subject_id |-> s, op |-> "classify"],
                Minion_classify(m, s))

ExpertMinionInit ==
  \E id \in Ids :
    Construct([cls |-> "ExpertMinion", id |-> id, op |-> "construct"],
              ExpertMinion_init(id))

ExpertMinionClassify ==
  /\ m.cls = "ExpertMinion"
  /\ \E s \in Subjects, g \in Labels :
       Classify([cls |-> "ExpertMinion", subject_id |-> s,
                 gold_label |-> PyInt(g), op |-> "classify"],
                ExpertMinion_classify(m, s, PyInt(g)))

AllTheSingleLabelsMinionInit ==
  \E id \in Ids, l \in Labels :
    Construct([cls |-> "AllTheSingleLabelsMinion", id |-> id,
               label |-> PyInt(l), op |-> "construct"],
              AllTheSingleLabelsMinion_init(id, PyInt(l)))

AllTheSingleLabelsMinionClassify ==
  /\ m.cls = "AllTheSingleLabelsMinion"
  /\ \E s \in Subjects :
       Classify([cls |-> "AllTheSingleLabelsMinion", subject_id |-> s,
                 op |-> "classify"],
                AllTheSingleLabelsMinion_classify(m, s))

RandomMinionInit ==
  \E id \in Ids, ls \in LabelLists :
    Construct([cls |-> "RandomMinion", id |-> id, labels |-> ls,
               op |-> "construct"],
              RandomMinion_init(id, ls))

RandomMinionClassify ==
  /\ m.cls = "RandomMinion"
  /\ \E s \in Subjects, i \in 1..Len(m.labels) :
       Classify([cls |-> "RandomMinion", subject_id |-> s, op |-> "classify"],
                RandomMinion_classify(m, s, i))

NoisyMinionInit ==
  \E id \in Ids, cm \in ConfusionMatrices :
    Construct([cls |-> "NoisyMinion", id |-> id, confusion_matrix |-> cm,
               op |-> "construct"],
              NoisyMinion_init(id, cm))

NoisyMinionClassify ==
  /\ m.cls = "NoisyMinion"
  /\ \E s \in Subjects, g \in BinaryLabels, d \in Draws :
       Classify([cls |-> "NoisyMinion", subject_id |-> s,
                 gold_label |-> PyInt(g), randn |-> d, op |-> "classify"],
                NoisyMinion_classify(m, s, PyInt(g), d))

MachineLearningMinionInit ==
  \E id \in Ids :
    Construct([cls |-> "MachineLearningMinion", id |-> id, op |-> "construct"],
              MachineLearningMinion_init(id))

\* __init__ yields no instance, so the method is reached through the class
MachineLearningMinionClassify ==
  \E s \in Subjects :
    Classify([cls |-> "MachineLearningMinion", subject_id |-> s,
              op |-> "classify"],
             MachineLearningMinion_classify(m, s))

Next ==
  \/ MinionInit
  \/ MinionClassify
  \/ ExpertMinionInit
  \/ ExpertMinionClassify
  \/ AllTheSingleLabelsMinionInit
  \/ AllTheSingleLabelsMinionClassify
  \/ RandomMinionInit
  \/ RandomMinionClassify
  \/ NoisyMinionInit
  \/ NoisyMinionClassify
  \/ MachineLearningMinionInit
  \/ MachineLearningMinionClassify

Spec == Init /\ [][Next]_vars

\* ======================================================== properties
\* the object a recorded constructor call builds
Built(c) ==
  CASE c.cls = "Minion" -> Minion_init.self
    [] c.cls = "ExpertMinion" -> ExpertMinion_init(c.id).self
    [] c.cls = "AllTheSingleLabelsMinion" ->
         AllTheSingleLabelsMinion_init(c.id, c.label).self
    [] c.cls = "RandomMinion" -> RandomMinion_init(c.id, c.labels).self
    [] c.cls = "NoisyMinion" -> NoisyMinion_init(c.id, c.confusion_matrix).self
    [] OTHER -> [cls |-> "NoneType"]

\* every way the classify call c on the object self can end
PossibleResults(self, c) ==
  CASE c.cls = "Minion" -> {Outcome(Minion_classify(self, c.subject_id))}
    [] c.cls = "ExpertMinion" ->
         {Outcome(ExpertMinion_classify(self, c.subject_id, c.gold_label))}
    [] c.cls = "AllTheSingleLabelsMinion" ->
         {Outcome(AllTheSingleLabelsMinion_classify(self, c.subject_id))}
    [] c.cls = "RandomMinion" ->
         {Outcome(RandomMinion_classify(self, c.subject_id, i)) :
            i \in 1..Len(self.labels)}
    [] c.cls = "NoisyMinion" ->
         {Outcome(NoisyMinion_classify(self, c.subject_id, c.gold_label, d)) :
            d \in Draws}
    [] OTHER -> {Outcome(MachineLearningMinion_classify(self, c.subject_id))}

\* some element of a confusion matrix lies outside [0,1]
OutOfRange(cm) == \E i \in DOMAIN cm : cm[i] < 0 \/ cm[i] > Unit

Called(op, cls) == call.op = op /\ call.cls = cls

\* C1: a NoisyMinion construction with any confusion matrix element < 0 or
\* > 1 raises ValueError, so m never holds a NoisyMinion with such a matrix.
C1_AnyOutOfRangeRejected ==
  /\ (Called("construct", "NoisyMinion") /\ OutOfRange(call.confusion_matrix))
       => (outcome.status = "raised" /\ outcome.exc = "ValueError")
  /\ m.cls = "NoisyMinion" => ~OutOfRange(m.confusion_matrix)

\* C2: a NoisyMinion with confusion matrix [1,1] classifies as ExpertMinion
\* does: whatever the draw, classify(s, g) returns (s, g).
C2_AstuteNoisyIsExpert ==
  (Called("classify", "NoisyMinion") /\ m.confusion_matrix = <<Unit, Unit>>)
    => outcome =
         Outcome(ExpertMinion_classify(m, call.subject_id, call.gold_label))

\* C3: every classify call that returns, returns the pair of the subject_id
\* passed in and a label that is an int of the task's label set.
C3_ResultIsSubjectAndValidLabel ==
  (call.op = "classify" /\ outcome.status = "returned"
     /\ (call.cls = "NoisyMinion" => ~OutOfRange(m.confusion_matrix)))
    => /\ Len(outcome.value) = 2
       /\ outcome.value[1] = call.subject_id
       /\ outcome.value[2].type = "int"
       /\ outcome.value[2].val \in Labels

\* C4: constructing and classifying with Minion and with
\* MachineLearningMinion always raise NotImplementedError.
C4_AbstractAlwaysNotImplemented ==
  call.cls \in {"Minion", "MachineLearningMinion"}
    => (outcome.status = "raised" /\ outcome.exc = "NotImplementedError")

\* C5: RandomMinion.classify never fails and returns a label of the
\* configured labels.
C5_RandomReturnsConfiguredLabel ==
  Called("classify", "RandomMinion")
    => /\ outcome.status = "returned"
       /\ \E i \in DOMAIN m.labels : outcome.value[2].val = m.labels[i]

\* C6: NoisyMinion.classify(s, g) returns g or the complementary class 1-g,
\* and when confusion_matrix[g] = 0 no draw makes it return g.
C6_ObtuseNeverReturnsGold ==
  (Called("classify", "NoisyMinion") /\ ~OutOfRange(m.confusion_matrix))
    => /\ outcome.value[2].val \in {call.gold_label.val, 1 - call.gold_label.val}
       /\ m.confusion_matrix[call.gold_label.val + 1] = 0
            => outcome.value[2].val # call.gold_label.val

\* C7: ExpertMinion.classify(s, g) returns exactly (s, g), whatever the
\* Minion's id and whatever was called before.
C7_ExpertReturnsGold ==
  Called("classify", "ExpertMinion")
    => outcome = [exc |-> "none", status |-> "returned",
                  value |-> <<call.subject_id, call.gold_label>>]

C7_Witness ==
  /\ Called("classify", "ExpertMinion")
  /\ outcome.status = "returned"
  /\ m.id = MaxId
  /\ call.gold_label = PyInt(1)
  /\ call.subject_id = MaxSubject

\* C8: an AllTheSingleLabelsMinion constructed with label L returns exactly
\* (s, L) from every classify(s).
C8_SingleLabelReturnsItsLabel ==
  Called("classify", "AllTheSingleLabelsMinion")
    => outcome = [exc |-> "none", status |-> "returned",
                  value |-> <<call.subject_id, ctor.label>>]

C8_Witness ==
  /\ Called("classify", "AllTheSingleLabelsMinion")
  /\ outcome.status = "returned"
  /\ ctor.label = PyInt(1)
  /\ ctor.id = 1
  /\ call.subject_id = MaxSubject

\* C9: on a Minion of the four concrete classes every classify call with a
\* valid subject_id (and gold label) returns; none ends in an error.
C9_ValidCallsReturn ==
  (call.op = "classify"
     /\ call.cls \in {"ExpertMinion", "AllTheSingleLabelsMinion",
                      "RandomMinion", "NoisyMinion"}
     /\ (call.cls = "NoisyMinion" => ~OutOfRange(m.confusion_matrix)))
    => outcome.status = "returned"

\* C10: a classify call leaves the Minion's attributes as the constructor
\* set them, and ends in one of the ways that the constructed configuration
\* and the call's arguments alone allow.
C10_ClassifyKeepsConfiguration ==
  [][call'.op = "classify"
       => /\ m' = m
          /\ m' = Built(ctor')
          /\ outcome' \in PossibleResults(Built(ctor'), call')]_vars

C10_Witness ==
  /\ Called("classify", "NoisyMinion")
  /\ outcome.status = "returned"
  /\ outcome.value[2] # call.gold_label
  /\ m = Built(ctor)
  /\ m.confusion_matrix = <<1, Unit>>

====
